---- MODULE Spec2Model ----
(***************************************************************************)
(* Model of class opt_tech (newton_4818.py): Newton's method and the       *)
(* golden section method for 1-D maximisation.                             *)
(*                                                                         *)
(* Numbers.  The program computes with Python floats and sympy numbers.    *)
(* Here a number is an integer count of a fixed unit:                      *)
(*   - golden_section: unit 1/GScale with GScale = PhiDen^MaxIter, so that *)
(*     every product .618*(xu-xl) of the first MaxIter iterations is exact *)
(*     (.618 = PhiNum/PhiDen = 309/500);                                   *)
(*   - newtons_method: unit 1/NScale, quotients rounded to the nearest     *)
(*     unit (the rounding of a float division, at a coarser resolution).   *)
(* A sympy value that is not finite (zoo, nan: the result of a division by *)
(* zero) is a record with finite = FALSE.  A local that has not been       *)
(* assigned yet holds 0; the program never reads it before assigning it.   *)
(***************************************************************************)
EXTENDS Integers, Sequences, FiniteSets, TLC

VARIABLES
    fx, itr_no, prec,            \* the optimizer context (self.fx, self.itr_no, self.prec)
    pc,                          \* position of the running call
    i,                           \* loop index of the running call (0-based, as range())
    xo, xi_old,                  \* newtons_method: initial guess, current approximation
    lines,                       \* newtons_method: iteration lines printed so far
    verdict,                     \* newtons_method: what was printed after the loop
    xl0, xu0,                    \* golden_section: the arguments of the call
    xl, xu, x2, x1, fx2, fx1,    \* golden_section: locals
    length, error_bound,         \* golden_section: the two precomputed lists
    rows,                        \* golden_section: table rows printed so far
    probes,                      \* golden_section: x2, x1, fx2, fx1 as computed by each iteration
    err                          \* exception that ended the call, or NoError

vars == <<fx, itr_no, prec, pc, i, xo, xi_old, lines, verdict, xl0, xu0,
          xl, xu, x2, x1, fx2, fx1, length, error_bound, rows, probes, err>>

newtonVars == <<xo, xi_old, lines, verdict>>
goldenVars == <<xl0, xu0, xl, xu, x2, x1, fx2, fx1, length, error_bound, rows, probes>>

----------------------------------------------------------------------------
(* Bounds of the model *)

MaxIter == 2          \* itr_no ranges over 0..MaxIter
MaxBound == 2         \* bracket ends and tent peaks range over 0..MaxBound
MaxSlope == 2         \* tent slopes range over 1..MaxSlope

(* Program constants *)

PhiNum == 309         \* .618 = 309/500
PhiDen == 500
TolNum == 1           \* 0.01 = 1/100
TolDen == 100

GScale == PhiDen ^ MaxIter
NScale == TolDen * 10

Unbound == 0                                  \* a local not assigned yet
NonFinite == [finite |-> FALSE, v |-> 0]      \* sympy zoo / nan
Finite(n) == [finite |-> TRUE, v |-> n]

NoError == [kind |-> "none", iteration |-> 0]
(* the TypeError of str.format; its message does not name an iteration *)
FormatError == [kind |-> "TypeError", iteration |-> 0]

Abs(n) == IF n < 0 THEN -n ELSE n
Sign(n) == IF n < 0 THEN -1 ELSE IF n > 0 THEN 1 ELSE 0

----------------------------------------------------------------------------
(* Objective functions.                                                    *)
(*   poly: f(x) = c3*x^3 + c2*x^2 + c1*x, c1 given in hundredths           *)
(*   tent: f(x) = -a*(m - x) for x <= m, -b*(x - m) for x >= m             *)

Polys == [kind : {"poly"}, c3 : {-1, 0}, c2 : {-10, -1, 0}, c1 : {0, 1, 100, 300}]
Tents == [kind : {"tent"}, a : 1..MaxSlope, b : 1..MaxSlope, m : 0..MaxBound]
Objectives == Polys \cup Tents

Precs == {2, 3}
Guesses == {0, 1, 2}

(* product and quotient of two numbers given in units of 1/unit *)
FMul(a, b, unit) == (a * b) \div unit

FDiv(a, b, unit) ==
    IF b = 0 THEN NonFinite
    ELSE Finite(Sign(a) * Sign(b) * ((2 * Abs(a) * unit + Abs(b)) \div (2 * Abs(b))))

(* self.fx.subs(self.x, x) *)
F(f, x, unit) ==
    IF f.kind = "poly"
    THEN f.c3 * FMul(FMul(x, x, unit), x, unit) + f.c2 * FMul(x, x, unit)
         + (f.c1 * x) \div TolDen
    ELSE IF x <= f.m * unit THEN -(f.a * (f.m * unit - x))
                            ELSE -(f.b * (x - f.m * unit))

(* df = sp.diff(self.fx); df.subs(self.x, x) *)
DF(f, x, unit) == 3 * f.c3 * FMul(x, x, unit) + 2 * f.c2 * x + (f.c1 * unit) \div TolDen

(* ddf = sp.diff(df); ddf.subs(self.x, x) *)
DDF(f, x, unit) == 6 * f.c3 * x + 2 * f.c2 * unit

(* "{:.{prec}f}".format(v): v rounded to prec decimals, ties to even *)
Pow10(n) == 10 ^ n
RoundTo(v, unit, p) ==
    LET u == unit \div Pow10(p) IN
    IF u <= 1 THEN v
    ELSE LET q == v \div u
             r == v % u
         IN IF 2 * r < u THEN q * u
            ELSE IF 2 * r > u THEN (q + 1) * u
            ELSE IF q % 2 = 0 THEN q * u ELSE (q + 1) * u

----------------------------------------------------------------------------
(* __init__ *)

Init ==
    /\ fx \in Objectives
    /\ itr_no \in 0..MaxIter
    /\ prec \in Precs
    /\ pc = "idle"
    /\ i = 0
    /\ xo = Unbound /\ xi_old = Unbound
    /\ lines = <<>>
    /\ verdict = [kind |-> "none"]
    /\ xl0 = Unbound /\ xu0 = Unbound
    /\ xl = Unbound /\ xu = Unbound /\ x2 = Unbound /\ x1 = Unbound
    /\ fx2 = Unbound /\ fx1 = Unbound
    /\ length = <<>> /\ error_bound = <<>>
    /\ rows = <<>>
    /\ probes = <<>>
    /\ err = NoError

----------------------------------------------------------------------------
(* newtons_method *)

NewtonUpdate(f, x) ==
    LET q == FDiv(DF(f, x, NScale), DDF(f, x, NScale), NScale)
    IN IF q.finite THEN Finite(x - q.v) ELSE NonFinite

RelativeError(xnew, xold) ==
    IF xnew.finite THEN FDiv(Abs(xnew.v - xold), Abs(xnew.v), NScale)
    ELSE NonFinite

(* lines 55-65; called on the objectives sympy can differentiate twice *)
CallNewton(guess) ==
    /\ pc = "idle"
    /\ fx.kind = "poly"
    /\ xo' = guess * NScale
    /\ xi_old' = guess * NScale
    /\ i' = 0
    /\ pc' = "newton_loop"
    /\ UNCHANGED <<fx, itr_no, prec, lines, verdict, goldenVars, err>>

(* one pass of the for loop, lines 68-77; formatting a value that is not   *)
(* finite raises TypeError inside print, before anything is printed        *)
NewtonStep ==
    /\ pc = "newton_loop"
    /\ i < itr_no
    /\ LET xi_new == NewtonUpdate(fx, xi_old)
           relative_error == RelativeError(xi_new, xi_old)
       IN IF ~xi_new.finite \/ ~relative_error.finite
          THEN /\ err' = FormatError
               /\ pc' = "newton_aborted"
               /\ UNCHANGED <<i, xi_old, lines>>
          ELSE /\ lines' = Append(lines, [i |-> i + 1,
                                          x |-> RoundTo(xi_new.v, NScale, prec),
                                          relative_error |-> RoundTo(relative_error.v, NScale, prec)])
               /\ xi_old' = xi_new.v
               /\ i' = i + 1
               /\ UNCHANGED <<pc, err>>
    /\ UNCHANGED <<fx, itr_no, prec, xo, verdict, goldenVars>>

(* line 83: abs(f_dash) <= 0.01 *)
AcceptedStrict(f_dash) == TolDen * Abs(f_dash) < TolNum * NScale
Accepted(f_dash) == TolDen * Abs(f_dash) <= TolNum * NScale

(* lines 80-92 *)
NewtonVerdict ==
    /\ pc = "newton_loop"
    /\ i >= itr_no
    /\ LET f_dash == DF(fx, xi_old, NScale)
       IN verdict' = IF Accepted(f_dash)
                     THEN [kind |-> "accepted",
                           x |-> RoundTo(xi_old, NScale, prec),
                           f_dash |-> RoundTo(f_dash, NScale, prec),
                           fmax |-> RoundTo(F(fx, xi_old, NScale), NScale, prec)]
                     ELSE [kind |-> "rejected",
                           x |-> RoundTo(xi_old, NScale, prec)]
    /\ pc' = "newton_done"
    /\ UNCHANGED <<fx, itr_no, prec, i, xo, xi_old, lines, goldenVars, err>>

----------------------------------------------------------------------------
(* golden_section *)

(* .618 * v, exact whenever PhiDen divides v *)
MulPhi(v) == PhiNum * (v \div PhiDen) + (PhiNum * (v % PhiDen)) \div PhiDen

(* v * .618**k *)
RECURSIVE PhiPow(_, _)
PhiPow(v, k) == IF k = 0 THEN v ELSE PhiPow(MulPhi(v), k - 1)

Brackets == 0..MaxBound

(* line 132 *)
Probe2SignSlip(lo, hi) == hi + MulPhi(hi - lo)
Probe2(lo, hi) == hi - MulPhi(hi - lo)

(* line 133 *)
Probe1AsProbe2(lo, hi) == hi - MulPhi(hi - lo)
Probe1(lo, hi) == lo + MulPhi(hi - lo)

(* line 145: TRUE when [xl, x2] is the part to eliminate *)
DiscardLowerReversed(v1, v2) == v1 < v2
DiscardLower(v1, v2) == v1 > v2

(* lines 145-152: the values of xl, x2, x1, xu after the two tuple assignments *)
EliminateUpperAtX2(lo, p2, p1, hi, v1, v2) ==
    IF DiscardLower(v1, v2)
    THEN [xl |-> p2, x2 |-> p1, x1 |-> p1, xu |-> hi]
    ELSE [xl |-> lo, x2 |-> p2, x1 |-> p2, xu |-> p2]
Eliminate(lo, p2, p1, hi, v1, v2) ==
    IF DiscardLower(v1, v2)
    THEN [xl |-> p2, x2 |-> p1, x1 |-> p1, xu |-> hi]
    ELSE [xl |-> lo, x2 |-> p2, x1 |-> p2, xu |-> p1]

(* lines 108-127: the header is printed and the two lists are computed;   *)
(* called on the unimodal objectives, with any pair of bounds, also        *)
(* lo >= hi, which the code accepts                                        *)
CallGolden(lo, hi) ==
    /\ pc = "idle"
    /\ fx.kind = "tent"
    /\ xl0' = lo * GScale /\ xu0' = hi * GScale
    /\ xl' = lo * GScale /\ xu' = hi * GScale
    /\ length' = [k \in 1..itr_no |->
                    RoundTo(PhiPow((hi - lo) * GScale, k - 1), GScale, prec)]
    /\ error_bound' = [k \in 1..itr_no |->
                    RoundTo(PhiPow((hi - lo) * GScale, k + 1), GScale, prec)]
    /\ i' = 0
    /\ pc' = "golden_probe"
    /\ UNCHANGED <<fx, itr_no, prec, newtonVars, x2, x1, fx2, fx1, rows, probes, err>>

(* lines 131-141: the comparison points, their values, the table row *)
GoldenProbe ==
    /\ pc = "golden_probe"
    /\ i < itr_no
    /\ LET p2 == Probe2(xl, xu)
           p1 == Probe1(xl, xu)
           v2 == F(fx, p2, GScale)
           v1 == F(fx, p1, GScale)
       IN /\ x2' = p2 /\ x1' = p1
          /\ fx2' = v2 /\ fx1' = v1
          /\ rows' = Append(rows,
                 [i |-> i + 1,
                  xl |-> RoundTo(xl, GScale, prec), x2 |-> RoundTo(p2, GScale, prec),
                  x1 |-> RoundTo(p1, GScale, prec), xu |-> RoundTo(xu, GScale, prec),
                  fx2 |-> RoundTo(v2, GScale, prec), fx1 |-> RoundTo(v1, GScale, prec),
                  length |-> RoundTo(length[i + 1], GScale, prec),
                  errBound |-> RoundTo(error_bound[i + 1], GScale, prec)])
          /\ probes' = Append(probes, [x2 |-> p2, x1 |-> p1, fx2 |-> v2, fx1 |-> v1])
    /\ pc' = "golden_elim"
    /\ UNCHANGED <<fx, itr_no, prec, i, newtonVars, xl0, xu0, xl, xu,
                   length, error_bound, err>>

(* lines 143-152: the elimination step *)
GoldenEliminate ==
    /\ pc = "golden_elim"
    /\ LET e == Eliminate(xl, x2, x1, xu, fx1, fx2)
       IN xl' = e.xl /\ x2' = e.x2 /\ x1' = e.x1 /\ xu' = e.xu
    /\ i' = i + 1
    /\ pc' = "golden_probe"
    /\ UNCHANGED <<fx, itr_no, prec, newtonVars, xl0, xu0, fx2, fx1,
                   length, error_bound, rows, probes, err>>

(* line 153: the loop is over *)
GoldenReturn ==
    /\ pc = "golden_probe"
    /\ i >= itr_no
    /\ pc' = "golden_done"
    /\ UNCHANGED <<fx, itr_no, prec, i, newtonVars, goldenVars, err>>

----------------------------------------------------------------------------

Next ==
    \/ \E guess \in Guesses : CallNewton(guess)
    \/ NewtonStep
    \/ NewtonVerdict
    \/ \E lo \in Brackets, hi \in Brackets : CallGolden(lo, hi)
    \/ GoldenProbe
    \/ GoldenEliminate
    \/ GoldenReturn

Spec == Init /\ [][Next]_vars

----------------------------------------------------------------------------
(* Properties of golden_section *)

InGolden == pc \in {"golden_probe", "golden_elim", "golden_done"}
ValidBracket == xl0 < xu0
Peak == fx.m * GScale

(* C1: for a unimodal objective whose maximizer lies in the valid bracket  *)
(* of the call, the maximizer lies in [xl, xu] in every state of the call, *)
(* so after every elimination step, ties fx1 = fx2 included.               *)
C1_MaximizerStaysInBracket ==
    (InGolden /\ ValidBracket /\ xl0 <= Peak /\ Peak <= xu0)
        => (xl <= Peak /\ Peak <= xu)

(* an elimination step has just resolved a tie and the peak is still inside *)
C1_Witness ==
    /\ pc = "golden_probe" /\ i >= 1 /\ ValidBracket
    /\ fx1 = fx2
    /\ xl < Peak /\ Peak < xu

(* C2: with a valid bracket the live width xu - xl after i elimination     *)
(* steps is (xu0 - xl0) * .618^i, it is smaller than the width one step    *)
(* earlier, and the call returns after exactly itr_no steps.               *)
C2_WidthIsPhiPower ==
    (InGolden /\ ValidBracket)
        => /\ xu - xl = PhiPow(xu0 - xl0, i)
           /\ i >= 1 => xu - xl < PhiPow(xu0 - xl0, i - 1)
           /\ pc = "golden_done" => i = itr_no

(* the call has returned after at least two elimination steps *)
C2_Witness ==
    pc = "golden_done" /\ ValidBracket /\ i >= 2 /\ xu - xl < xu0 - xl0

(* C3: of the two probes of an iteration exactly one has the value of a    *)
(* probe of the iteration before: the old x1 is the new x2 when            *)
(* fx1 > fx2, the old x2 is the new x1 otherwise.                          *)
C3_OneProbeReused ==
    ValidBracket =>
        \A k \in 1..(Len(probes) - 1) :
            LET p == probes[k]
                q == probes[k + 1]
            IN IF p.fx1 > p.fx2
               THEN q.x2 = p.x1 /\ q.x1 \notin {p.x2, p.x1}
               ELSE q.x1 = p.x2 /\ q.x2 \notin {p.x2, p.x1}

(* C4: with a valid bracket, once the probes have been computed,           *)
(* xl < x2, xl < x1, x2 < xu and x1 < xu hold, after the probe computation *)
(* and after the elimination step alike.                                   *)
C4_ProbesInsideBracket ==
    (InGolden /\ ValidBracket /\ probes # <<>>)
        => (xl < x2 /\ xl < x1 /\ x2 < xu /\ x1 < xu)

(* the second elimination step has just updated the bracket *)
C4_Witness ==
    pc = "golden_probe" /\ i = 2 /\ ValidBracket /\ Len(probes) = 2

(* C7: a call with lower_bound >= upper_bound fails with InvalidBracket    *)
(* before any iteration runs and before any row is printed: it neither     *)
(* reaches an elimination step nor returns.                                *)
C7_InvalidBracketRejected ==
    (pc \in {"golden_elim", "golden_done"} /\ xl0 >= xu0)
        => (err.kind = "InvalidBracket" /\ rows = <<>> /\ probes = <<>>)

----------------------------------------------------------------------------
(* Properties of newtons_method *)

(* the approximation after k update steps, every quotient being finite *)
RECURSIVE NewtonIter(_, _, _)
NewtonIter(f, x, k) == IF k = 0 THEN x ELSE NewtonUpdate(f, NewtonIter(f, x, k - 1)).v

(* C5: after the loop the final approximation is accepted, and f of it is  *)
(* reported as the maximum, exactly when |f'(x_final)| <= 0.01; otherwise  *)
(* it is reported as rejected and no maximum is reported.                  *)
C5_AcceptedIffSmallDerivative ==
    pc = "newton_done" =>
        IF 100 * Abs(DF(fx, xi_old, NScale)) <= NScale
        THEN /\ verdict.kind = "accepted"
             /\ verdict.x = RoundTo(xi_old, NScale, prec)
             /\ verdict.fmax = RoundTo(F(fx, xi_old, NScale), NScale, prec)
        ELSE /\ verdict.kind = "rejected"
             /\ verdict.x = RoundTo(xi_old, NScale, prec)
             /\ "fmax" \notin DOMAIN verdict

(* a run of at least one update step ended with |f'| equal to 0.01 *)
C5_Witness ==
    /\ pc = "newton_done" /\ itr_no >= 1 /\ Len(lines) = itr_no
    /\ 100 * Abs(DF(fx, xi_old, NScale)) = NScale
    /\ verdict.kind = "accepted"

(* C6: when the second derivative is zero at the current point of          *)
(* iteration i, the run aborts with a DivisionByZero error naming i, with  *)
(* no line for iteration i and no verdict.                                 *)
C6_DivisionByZeroSurfaced ==
    (pc = "newton_aborted" /\ DDF(fx, xi_old, NScale) = 0)
        => /\ err.kind = "DivisionByZero" /\ err.iteration = i + 1
           /\ Len(lines) = i
           /\ verdict.kind = "none"

(* C8: with an iteration count below 1 either method fails with            *)
(* InvalidIterationCount and prints no line, no row and no verdict: the    *)
(* call does not come to its end without that error.                       *)
C8_InvalidIterationCountRejected ==
    (pc \in {"newton_done", "newton_aborted", "golden_done"} /\ itr_no < 1)
        => /\ err.kind = "InvalidIterationCount"
           /\ lines = <<>> /\ rows = <<>> /\ verdict.kind = "none"

(* C10: for itr_no >= 1, a run in which the second derivative is non-zero  *)
(* at every visited point is not aborted, and ends with the lines          *)
(* 1..itr_no, each computed from the approximation before it, followed by  *)
(* one verdict.                                                            *)
C10_NewtonRunsAllIterations ==
    /\ (pc = "newton_aborted" /\ itr_no >= 1) => DDF(fx, xi_old, NScale) = 0
    /\ (pc = "newton_done" /\ itr_no >= 1)
          => /\ Len(lines) = itr_no
             /\ \A k \in 1..Len(lines) :
                   /\ lines[k].i = k
                   /\ lines[k].x = RoundTo(NewtonIter(fx, xo, k), NScale, prec)
             /\ verdict.kind \in {"accepted", "rejected"}

====
